---- MODULE Spec2Model ----
(***************************************************************************)
(* Model of the equation analysis of devito:                               *)
(*   - dimension_sort   (src/devito/ir/equations/algorithms.py)             *)
(*   - Stencil          (src/devito/stencil.py)                             *)
(* An equation is a left-hand access and a list of right-hand accesses.    *)
(* An access (sympy Indexed) is [function |-> <<declared dimensions>>,      *)
(* indices |-> <<index expressions>>].  An index expression is a record    *)
(* [kind, d, c, ds, accs]:                                                  *)
(*   "dim"  the bare Dimension d                                            *)
(*   "add"  the sum d + c, c a non-zero integer literal                     *)
(*   "lit"  the integer literal c                                           *)
(*   "idx"  an Indexed used as index, accs = <<that access>>                *)
(*   "expr" any other expression: a product of the Dimensions ds, the       *)
(*          integer c (1 when absent) and the accesses accs                 *)
(***************************************************************************)
EXTENDS Integers, Sequences, FiniteSets, TLC

\* ------------------------------------------------------------------ bounds
MaxIdx == 3
MaxRhs == 1
MaxTotal == 3

\* -------------------------------------------------------------- dimensions
\* The Dimension objects of a grid, by name.
Dims == {"ci", "t", "time", "x", "xi", "y"}

\* str order of the names (sorted(..., key=attrgetter('name'))); the
\* subdomain index object sorts by its repr, after the Dimensions.
SubIdx == "~sub"
ByName == <<"ci", "t", "time", "x", "xi", "y", SubIdx>>

NameRank(v) == CHOOSE k \in 1..Len(ByName) : ByName[k] = v

\* d.is_Derived and d.parent
IsDerived(d) == d \in {"t", "xi", "ci"}
Parent(d) == CASE d = "t" -> "time"
               [] d = "xi" -> "x"
               [] d = "ci" -> "xi"
               [] OTHER -> d

\* d.is_Space
IsSpace(d) == d \in {"x", "xi", "ci", "y"}

\* d.root: the topmost ancestor.
RECURSIVE Root(_)
Root(d) == IF IsDerived(d) THEN Root(Parent(d)) ELSE d

Range(s) == {s[k] : k \in 1..Len(s)}

\* ------------------------------------------------------- index expressions
Bare(d) == [kind |-> "dim", d |-> d, c |-> 0, ds |-> {}, accs |-> <<>>]
Add(d, c) == [kind |-> "add", d |-> d, c |-> c, ds |-> {}, accs |-> <<>>]
Lit(c) == [kind |-> "lit", d |-> "-", c |-> c, ds |-> {}, accs |-> <<>>]
Idx(acc) == [kind |-> "idx", d |-> "-", c |-> 0, ds |-> {}, accs |-> <<acc>>]
Expr(ds, c, accs) == [kind |-> "expr", d |-> "-", c |-> c, ds |-> ds, accs |-> accs]

Access(fdims, indices) == [function |-> fdims, indices |-> indices]

\* flatten: the concatenation of a sequence of tuples.
RECURSIVE flatten(_)
flatten(ss) == IF ss = <<>> THEN <<>> ELSE Head(ss) \o flatten(Tail(ss))

\* filter_sorted(elements, key=name): the elements of a set, sorted by name.
RECURSIVE filter_sorted(_)
filter_sorted(S) ==
    IF S = {} THEN <<>>
    ELSE LET m == CHOOSE v \in S : \A w \in S : NameRank(v) <= NameRank(w)
         IN <<m>> \o filter_sorted(S \ {m})

\* The Indexeds of an index expression i, the outermost ones only
\* (retrieve_indexed with its default deep=False stops at an Indexed).
retrieve_indexed(i) == i.accs

\* The Indexeds of an equation, outermost ones only.
retrieve_indexed_expr(e) == <<e.lhs>> \o e.rhs

\* The Indexeds of a list of accesses at every depth (deep=True).
RECURSIVE retrieve_indexed_deep(_)
retrieve_indexed_deep(accs) ==
    IF accs = <<>> THEN <<>>
    ELSE LET a == Head(accs)
             inner == flatten([k \in 1..Len(a.indices) |-> a.indices[k].accs])
         IN <<a>> \o retrieve_indexed_deep(inner) \o retrieve_indexed_deep(Tail(accs))

\* The Dimensions among the free symbols of an index expression.
RECURSIVE free_dims(_)
free_dims(i) ==
    (IF i.kind \in {"dim", "add"} THEN {i.d} ELSE {}) \cup i.ds
    \cup UNION {UNION {free_dims(i.accs[k].indices[j]) : j \in 1..Len(i.accs[k].indices)}
                : k \in 1..Len(i.accs)}

\* split_affine(i): the Dimension of an affine index, "number" for a number
\* (var is None), "ValueError" otherwise.
split_affine(i) == CASE i.kind \in {"dim", "add"} -> i.d
                     [] i.kind = "lit" -> "number"
                     [] OTHER -> "ValueError"

\* ------------------------------------------------------------ dimension_sort
\* handle_indexed: the relation of one access, its indices left to right.
RECURSIVE handle_indexed(_)
handle_indexed(indexed) ==
    LET RECURSIVE loop(_)
        loop(indices) ==
            IF indices = <<>> THEN <<>>
            ELSE LET i == Head(indices)
                     maybe_dim == split_affine(i)
                     nested == flatten([k \in 1..Len(retrieve_indexed(i)) |->
                                           handle_indexed(retrieve_indexed(i)[k])])
                     here == IF maybe_dim = "ValueError"
                             THEN IF nested # <<>> THEN nested
                                  ELSE filter_sorted(free_dims(i))
                             ELSE IF maybe_dim \in Dims THEN <<maybe_dim>> ELSE <<>>
                 IN here \o loop(Tail(indices))
    IN loop(indexed.indices)

\* order_relations with the two classes concatenated the other way round.
order_relations_space_first(unordered, sargs) ==
    LET ns == SelectSeq(unordered, LAMBDA v : IF v \in Dims THEN ~IsSpace(v) ELSE ~IsSpace(sargs[1]))
        sp == SelectSeq(unordered, LAMBDA v : IF v \in Dims THEN IsSpace(v) ELSE IsSpace(sargs[1]))
    IN IF Len(sargs) > 1 THEN [err |-> "ValueError", rel |-> <<>>]
       ELSE [err |-> "none", rel |-> sp \o ns]

\* order_relations: non-space entries first, then space entries; an entry with
\* args (the subdomain index object) is classified by its one Dimension.
order_relations(unordered, sargs) ==
    LET RECURSIVE loop(_, _, _)
        loop(rest, ns, sp) ==
            IF rest = <<>> THEN [err |-> "none", rel |-> ns \o sp]
            ELSE LET i == Head(rest)
                 IN IF i \in Dims
                    THEN IF IsSpace(i) THEN loop(Tail(rest), ns, Append(sp, i))
                         ELSE loop(Tail(rest), Append(ns, i), sp)
                    ELSE IF Len(sargs) > 1 THEN [err |-> "ValueError", rel |-> <<>>]
                    ELSE IF IsSpace(sargs[1]) THEN loop(Tail(rest), ns, Append(sp, i))
                    ELSE loop(Tail(rest), Append(ns, i), sp)
    IN loop(unordered, <<>>, <<>>)

\* relations = {handle_indexed(i) for i in retrieve_indexed(expr, mode='all')}
ExtractedRelations(e) ==
    {handle_indexed(retrieve_indexed_expr(e)[k]) : k \in 1..Len(retrieve_indexed_expr(e))}

\* extra: the free Dimensions of the equation and the declared dimensions of
\* every function it accesses, sorted by name.
ExtraDims(e) ==
    LET all == retrieve_indexed_deep(retrieve_indexed_expr(e))
        top == retrieve_indexed_expr(e)
        free == e.scalars \cup
                UNION {UNION {free_dims(top[k].indices[j]) : j \in 1..Len(top[k].indices)}
                       : k \in 1..Len(top)}
        data == UNION {Range(all[k].function) : k \in 1..Len(all)}
    IN filter_sorted(free \cup data)

\* root of an entry of a relation; the subdomain index object is its own root.
RootOf(v) == IF v \in Dims THEN Root(v) ELSE v

ImplicitRelations(extra, relations) ==
    {<<Parent(d), d>> : d \in {v \in Range(extra) : IsDerived(v)}}
    \cup {[k \in 1..Len(r) |-> RootOf(r[k])] : r \in relations}

\* PartialOrderTuple(items, relations): a topological order of the items and
\* of everything the relations mention, an edge from each entry of a relation
\* to its successor; ties go to the items in their order, then by name.
PartialOrderTuple(items, relations) ==
    LET vertices == Range(items) \cup UNION {Range(r) : r \in relations}
        edges == UNION {{<<r[k], r[k + 1]>> : k \in 1..(Len(r) - 1)} : r \in relations}
        pos(v) == CHOOSE k \in 1..Len(items) : items[k] = v
        key(v) == IF v \in Range(items) THEN pos(v) ELSE Len(items) + NameRank(v)
        RECURSIVE sort(_, _)
        sort(done, left) ==
            IF left = {} THEN [err |-> "none", ordering |-> done]
            ELSE LET ready == {v \in left : \A e \in edges : e[2] = v => e[1] \notin left}
                 IN IF ready = {} THEN [err |-> "CycleDetected", ordering |-> <<>>]
                    ELSE LET v == CHOOSE v \in ready : \A w \in ready : key(v) <= key(w)
                         IN sort(Append(done, v), left \ {v})
    IN sort(<<>>, vertices)

\* ------------------------------------------------------------------ inputs
\* One index position of an access: <<declared dimension, index expression>>.
PosPool ==
    {<<"time", Bare("time")>>, <<"x", Bare("x")>>, <<"y", Add("y", 1)>>,
     <<"x", Bare("xi")>>, <<"ci", Lit(3)>>,
     <<"y", Idx(Access(<<"time">>, <<Bare("t")>>))>>,
     <<"x", Expr({"x", "time"}, 1, <<>>)>>}

MkAccess(ps) == Access([k \in 1..Len(ps) |-> ps[k][1]], [k \in 1..Len(ps) |-> ps[k][2]])

AccessPool(n) == {MkAccess(ps) : ps \in UNION {[1..m -> PosPool] : m \in 1..n}}

\* Lists of exactly n accesses with at most budget index positions in all.
RECURSIVE AccessLists(_, _)
AccessLists(n, budget) ==
    IF n = 0 THEN {<<>>}
    ELSE UNION {{<<a>> \o rest : rest \in AccessLists(n - 1, budget - Len(a.indices))}
                : a \in AccessPool(IF budget - (n - 1) < MaxIdx THEN budget - (n - 1) ELSE MaxIdx)}

\* The Dimensions an equation uses outside of any access.
ScalarPool == {{}, {"t"}}

\* Equations with at most maxrhs right-hand accesses.
Equations(maxrhs) ==
    UNION {{[lhs |-> l[1], rhs |-> Tail(l), scalars |-> sc] :
               l \in AccessLists(n, MaxTotal), sc \in ScalarPool}
           : n \in 1..(maxrhs + 1)}

\* expr._subdomain.indices: <<>> when the equation has no subdomain.
Subdomains == {<<>>, <<"x">>, <<"time">>, <<"x", "y">>}

NoRun == [err |-> "norun", ordering |-> <<>>]

VARIABLES
    \* the equation under analysis and its subdomain ordering
    expr, subdomain,
    \* dimension_sort: position, locals, outcome of this call and of the last
    pc, relations, extra, implicit, result, prev,
    \* Stencil.extract: position, the list of accesses to scan, the stencil
    xpc, indexed, stencil,
    \* Stencil objects: the set objects, three stencils, the result of the
    \* operation run, the operands' items before it, results of the union laws
    heap, self, other, third, out, op, snap, laws

sortVars == <<pc, relations, extra, implicit, result, prev>>
extractVars == <<xpc, indexed, stencil>>
stencilVars == <<heap, self, other, third, out, op, snap, laws>>
vars == <<expr, subdomain, sortVars, extractVars, stencilVars>>

SortIdle ==
    /\ pc = "start"
    /\ relations = {}
    /\ extra = <<>>
    /\ implicit = {}
    /\ result = NoRun
    /\ prev = NoRun

ExtractIdle ==
    /\ xpc = "start"
    /\ indexed = <<>>
    /\ stencil = <<>>

StencilIdle ==
    /\ heap = <<>>
    /\ self = <<>>
    /\ other = <<>>
    /\ third = <<>>
    /\ out = <<>>
    /\ op = "none"
    /\ snap = <<>>
    /\ laws = <<>>

Init ==
    /\ expr \in Equations(MaxRhs)
    /\ subdomain \in Subdomains
    /\ SortIdle
    /\ ExtractIdle
    /\ StencilIdle

\* line 56
Extract ==
    /\ pc = "start"
    /\ relations' = ExtractedRelations(expr)
    /\ pc' = "extracted"
    /\ UNCHANGED <<expr, subdomain, extra, implicit, result, prev>>
    /\ UNCHANGED <<extractVars, stencilVars>>

\* lines 58-63: relations.pop() takes whichever relation the set yields first.
Merge ==
    /\ pc = "extracted"
    /\ IF subdomain = <<>>
       THEN /\ pc' = "merged"
            /\ UNCHANGED <<relations, result>>
       ELSE IF relations = {}
       THEN /\ pc' = "error"
            /\ result' = [err |-> "KeyError", ordering |-> <<>>]
            /\ UNCHANGED relations
       ELSE \E r \in relations :
              LET o == order_relations(Append(r, SubIdx), subdomain)
              IN IF o.err # "none"
                 THEN /\ pc' = "error"
                      /\ result' = [err |-> o.err, ordering |-> <<>>]
                      /\ UNCHANGED relations
                 ELSE /\ pc' = "merged"
                      /\ relations' = {o.rel}
                      /\ UNCHANGED result
    /\ UNCHANGED <<expr, subdomain, extra, implicit, prev>>
    /\ UNCHANGED <<extractVars, stencilVars>>

\* lines 65-74
Extra ==
    /\ pc = "merged"
    /\ extra' = ExtraDims(expr)
    /\ pc' = "extra"
    /\ UNCHANGED <<expr, subdomain, relations, implicit, result, prev>>
    /\ UNCHANGED <<extractVars, stencilVars>>

\* lines 76-87
Implicit ==
    /\ pc = "extra"
    /\ implicit' = ImplicitRelations(extra, relations)
    /\ pc' = "implicit"
    /\ UNCHANGED <<expr, subdomain, relations, extra, result, prev>>
    /\ UNCHANGED <<extractVars, stencilVars>>

\* Resolve with the extracted relations left out of the resolver's input.
ResolveImplicitOnly ==
    /\ pc = "implicit"
    /\ result' = PartialOrderTuple(extra, implicit)
    /\ pc' = IF result'.err = "none" THEN "done" ELSE "error"
    /\ UNCHANGED <<expr, subdomain, relations, extra, implicit, prev>>
    /\ UNCHANGED <<extractVars, stencilVars>>

\* lines 89-91
Resolve ==
    /\ pc = "implicit"
    /\ result' = PartialOrderTuple(extra, relations \cup implicit)
    /\ pc' = IF result'.err = "none" THEN "done" ELSE "error"
    /\ UNCHANGED <<expr, subdomain, relations, extra, implicit, prev>>
    /\ UNCHANGED <<extractVars, stencilVars>>

\* The caller runs dimension_sort on the same equation a second time.
Again ==
    /\ pc \in {"done", "error"}
    /\ prev = NoRun
    /\ prev' = result
    /\ pc' = "start"
    /\ relations' = {}
    /\ extra' = <<>>
    /\ implicit' = {}
    /\ result' = NoRun
    /\ UNCHANGED <<expr, subdomain>>
    /\ UNCHANGED <<extractVars, stencilVars>>

Next == Extract \/ Merge \/ Extra \/ Implicit \/ Resolve \/ Again

Spec == Init /\ [][Next]_vars

\* --------------------------------------------------- dimension_sort claims
\* a occurs before b in the sequence seq
Before(seq, a, b) == \E j, k \in 1..Len(seq) : j < k /\ seq[j] = a /\ seq[k] = b

\* seq places the entries of the relation r in r's order
Respects(seq, r) == \A k \in 1..(Len(r) - 1) : Before(seq, r[k], r[k + 1])

Occurrences(seq, v) == Cardinality({k \in 1..Len(seq) : seq[k] = v})

HasDuplicate(r) == \E j, k \in 1..Len(r) : j # k /\ r[j] = r[k]

\* C1 as stated: whenever dimension_sort returns, with or without a
\* subdomain ordering, the returned sequence places the entries of every
\* relation extracted from an access of the equation in the relation's order.
C1_TopologicalValidity ==
    pc = "done" => \A r \in ExtractedRelations(expr) : Respects(result.ordering, r)

\* C1 amended: without a subdomain ordering the returned sequence respects
\* every extracted relation; with one it respects the combined relation that
\* replaced them.
C1_TopologicalValidityAmended ==
    pc = "done" =>
        /\ subdomain = <<>> =>
               \A r \in ExtractedRelations(expr) : Respects(result.ordering, r)
        /\ \A r \in relations : Respects(result.ordering, r)

C1_Witness ==
    /\ pc = "done"
    /\ subdomain = <<>>
    /\ Cardinality(ExtractedRelations(expr)) = 2
    /\ \E r \in ExtractedRelations(expr) : Len(r) >= 2 /\ \E k \in 1..Len(r) : IsDerived(r[k])

\* C2 as stated: every derived dimension of the returned sequence has its
\* parent in the sequence, at an earlier position.
C2_ParentPrecedence ==
    pc = "done" =>
        \A d \in Range(result.ordering) \cap Dims :
            IsDerived(d) => Before(result.ordering, Parent(d), d)

\* C3 as stated: a second run of dimension_sort on the same equation returns
\* the sequence the first run returned.
C3_Determinism ==
    (pc = "done" /\ prev.err = "none") => result.ordering = prev.ordering

\* C5 as stated: with a subdomain ordering and more than one distinct
\* extracted relation, dimension_sort signals the error of the classification
\* step (the ValueError of order_relations) and returns no ordering.
C5_MultipleRelationsRejected ==
    (/\ subdomain # <<>>
     /\ Cardinality(ExtractedRelations(expr)) > 1
     /\ pc \notin {"start", "extracted"})
    => (pc = "error" /\ result.err = "ValueError")
NotSpace(v) == v \in Dims /\ ~IsSpace(v)
Space(v) == v \in Dims /\ IsSpace(v)

\* C4 as stated: the combined relation is the non-space dimensions of the
\* extracted relation, then the subdomain index, then its space dimensions.
C4_SubdomainMergeOrder ==
    (pc = "merged" /\ subdomain # <<>>) =>
        \E r \in ExtractedRelations(expr) :
            relations = {SelectSeq(r, NotSpace) \o <<SubIdx>> \o SelectSeq(r, Space)}

\* C4 amended: the combined relation is the non-space dimensions of the
\* relation taken from the set, then its space dimensions, each in their
\* original order, with the subdomain index placed after the dimensions of
\* its own kind: before the space dimensions when its dimension is non-space,
\* after all of them when it is space.
C4_SubdomainMergeOrderAmended ==
    (pc = "merged" /\ subdomain # <<>>) =>
        \E r \in ExtractedRelations(expr) :
            relations =
                {SelectSeq(r, NotSpace)
                 \o (IF IsSpace(subdomain[1]) THEN <<>> ELSE <<SubIdx>>)
                 \o SelectSeq(r, Space)
                 \o (IF IsSpace(subdomain[1]) THEN <<SubIdx>> ELSE <<>>)}

C4_Witness ==
    /\ pc = "merged"
    /\ subdomain = <<"x">>
    /\ ExtractedRelations(expr) = {<<"x", "time", "y">>}
    /\ relations = {<<"time", "x", "y", SubIdx>>}

\* the relation r without the later occurrences of its entries
RECURSIVE Dedup(_)
Dedup(r) ==
    IF r = <<>> THEN <<>>
    ELSE LET init == Dedup(SubSeq(r, 1, Len(r) - 1))
         IN IF r[Len(r)] \in Range(init) THEN init ELSE Append(init, r[Len(r)])

\* C10 as stated: when a relation handed to the resolver repeats a dimension
\* and the relations without the repetitions have an order, the resolver
\* reports no cycle and the returned sequence holds each dimension once.
C10_DuplicatesHarmless ==
    (/\ result.err \in {"none", "CycleDetected"}
     /\ \E r \in relations \cup implicit : HasDuplicate(r)
     /\ PartialOrderTuple(extra, {Dedup(r) : r \in relations \cup implicit}).err = "none")
    => /\ result.err = "none"
       /\ \A v \in Range(extra) \cup UNION {Range(r) : r \in relations \cup implicit} :
              Occurrences(result.ordering, v) = 1

\* ================================================================ Stencil
\* A Stencil under construction by extract: the entries of the ordered dict,
\* [dim |-> Dimension, ofs |-> set of offsets], in insertion order.
StencilKeys(st) == {st[k].dim : k \in 1..Len(st)}

\* stencil[d].update(offs): the default factory inserts an empty set for a
\* dimension that is not stored yet.
update(st, d, offs) ==
    LET st1 == IF d \in StencilKeys(st) THEN st ELSE Append(st, [dim |-> d, ofs |-> {}])
    IN [k \in 1..Len(st1) |->
           IF st1[k].dim = d THEN [dim |-> d, ofs |-> st1[k].ofs \cup offs] ELSE st1[k]]

\* a.args of an index expression: a Dimension, an integer literal, or
\* anything else (an IndexedBase, a compound expression).
ArgDim(d) == [t |-> "dim", d |-> d, c |-> 0]
ArgInt(c) == [t |-> "int", d |-> "-", c |-> c]
ArgOther == [t |-> "other", d |-> "-", c |-> 0]

ArgOfIndex(i) == CASE i.kind = "dim" -> ArgDim(i.d)
                   [] i.kind = "lit" -> ArgInt(i.c)
                   [] OTHER -> ArgOther

Args(a) ==
    CASE a.kind \in {"dim", "lit"} -> <<>>
      [] a.kind = "add" -> <<ArgInt(a.c), ArgDim(a.d)>>
      [] a.kind = "idx" ->
            <<ArgOther>> \o [k \in 1..Len(a.accs[1].indices) |-> ArgOfIndex(a.accs[1].indices[k])]
      [] OTHER ->
            (IF a.c # 1 THEN <<ArgInt(a.c)>> ELSE <<>>)
            \o [k \in 1..Len(filter_sorted(a.ds)) |-> ArgDim(filter_sorted(a.ds)[k])]
            \o [k \in 1..Len(a.accs) |-> ArgOther]

\* lines 64-75: one index expression a of an access.
scan_index(st, a) ==
    LET st1 == IF a.kind = "dim" THEN update(st, a.d, {0}) ELSE st
        args == Args(a)
        dimargs == {k \in 1..Len(args) : args[k].t = "dim"}
        off == {args[k].c : k \in {j \in 1..Len(args) : args[j].t = "int"}}
    IN IF dimargs = {} THEN st1
       ELSE update(st1, args[CHOOSE k \in dimargs : \A j \in dimargs : j <= k].d, off)

\* lines 63-75 for one access e.
RECURSIVE scan_indices(_, _)
scan_indices(st, indices) ==
    IF indices = <<>> THEN st
    ELSE scan_indices(scan_index(st, Head(indices)), Tail(indices))

\* lines 60-62: the accesses of both sides, then the accesses found in their
\* index expressions.
collect_indexed(e) ==
    LET top == retrieve_indexed_expr(e)
    IN top \o flatten([k \in 1..Len(top) |->
                  flatten([j \in 1..Len(top[k].indices) |-> retrieve_indexed(top[k].indices[j])])])

\* ---------------------------------------------------- inputs of extract
MaxNest == 2
MaxStencilIdx == 2
MaxStencilTotal == 3

BaseIndices == {Bare("x"), Add("x", 1), Add("y", -1), Lit(3), Expr({"x"}, 2, <<>>)}

RECURSIVE NestedIndices(_)
NestedIndices(n) ==
    IF n = 0 THEN BaseIndices
    ELSE BaseIndices \cup {Idx(Access(<<"x">>, <<i>>)) : i \in NestedIndices(n - 1)}

StencilAccesses(n) ==
    {Access([k \in 1..Len(is) |-> "x"], is) :
        is \in UNION {[1..m -> NestedIndices(MaxNest)] : m \in 1..n}}

\* Lists of exactly n accesses with at most budget index positions in all.
RECURSIVE StencilAccessLists(_, _)
StencilAccessLists(n, budget) ==
    IF n = 0 THEN {<<>>}
    ELSE UNION {{<<a>> \o rest : rest \in StencilAccessLists(n - 1, budget - Len(a.indices))}
                : a \in StencilAccesses(IF budget - (n - 1) < MaxStencilIdx
                                        THEN budget - (n - 1) ELSE MaxStencilIdx)}

StencilEquations(maxrhs) ==
    UNION {{[lhs |-> l[1], rhs |-> Tail(l), scalars |-> {}] :
               l \in StencilAccessLists(n, MaxStencilTotal)}
           : n \in 1..(maxrhs + 1)}

InitExtract ==
    /\ expr \in StencilEquations(MaxRhs)
    /\ subdomain = <<>>
    /\ SortIdle
    /\ ExtractIdle
    /\ StencilIdle

\* lines 58-62
Collect ==
    /\ xpc = "start"
    /\ stencil' = <<>>
    /\ indexed' = collect_indexed(expr)
    /\ xpc' = "scan"
    /\ UNCHANGED <<expr, subdomain, sortVars, stencilVars>>

\* lines 63-75, one access of the list
Scan ==
    /\ xpc = "scan"
    /\ indexed # <<>>
    /\ stencil' = scan_indices(stencil, Head(indexed).indices)
    /\ indexed' = Tail(indexed)
    /\ UNCHANGED <<xpc, expr, subdomain, sortVars, stencilVars>>

\* line 76
Return ==
    /\ xpc = "scan"
    /\ indexed = <<>>
    /\ xpc' = "done"
    /\ UNCHANGED <<indexed, stencil, expr, subdomain, sortVars, stencilVars>>

NextExtract == Collect \/ Scan \/ Return

SpecExtract == InitExtract /\ [][NextExtract]_vars

\* the offset o is stored for the dimension d
Registered(st, d, o) == \E k \in 1..Len(st) : st[k].dim = d /\ o \in st[k].ofs

\* the index expressions of every access of the equation, at every depth
AllIndices(e) ==
    LET all == retrieve_indexed_deep(retrieve_indexed_expr(e))
    IN UNION {Range(all[k].indices) : k \in 1..Len(all)}

\* C6 as stated: every index expression of every access of the equation, at
\* any nesting depth, contributes to the extracted stencil: a bare dimension
\* registers offset 0, an index with one dimension and integer literals among
\* its arguments registers each of those integers; and every stored dimension
\* comes from an index that has it among its arguments or is it.
C6_ExtractCoversNested ==
    xpc = "done" =>
        /\ \A i \in AllIndices(expr) :
              /\ i.kind = "dim" => Registered(stencil, i.d, 0)
              /\ i.kind = "add" => Registered(stencil, i.d, i.c)
              /\ (i.kind = "expr" /\ Cardinality(i.ds) = 1 /\ i.c # 1) =>
                     \A d \in i.ds : Registered(stencil, d, i.c)
        /\ \A d \in StencilKeys(stencil) :
              \E i \in AllIndices(expr) :
                  \/ i.kind = "dim" /\ i.d = d
                  \/ \E k \in 1..Len(Args(i)) : Args(i)[k] = ArgDim(d)

\* ------------------------------------------------- Stencil objects
\* A Stencil object is the sequence of its entries [dim, ref] in insertion
\* order; ref is the index in heap of the set object stored for dim.  A set
\* object is [val |-> its offsets, frozen |-> whether it is a frozenset].
Keys(st) == {st[k].dim : k \in 1..Len(st)}

RefOf(st, d) == st[CHOOSE k \in 1..Len(st) : st[k].dim = d].ref

\* list(st.items()) by value; == on two Stencils compares these (OrderedDict
\* equality is sensitive to the order of the keys).
Items(h, st) == [k \in 1..Len(st) |-> <<st[k].dim, h[st[k].ref].val>>]

\* the mapping a Stencil stores, without the order of its keys
AsMap(h, st) == {<<st[k].dim, h[st[k].ref].val>> : k \in 1..Len(st)}

\* Stencil.union with output[k] = v in place of output[k] |= v.
union_overwrite(h, dicts) ==
    LET entries == flatten(dicts)
        RECURSIVE loop(_, _, _)
        loop(hp, output, rest) ==
            IF rest = <<>> THEN [heap |-> hp, st |-> output]
            ELSE LET k == Head(rest).dim
                     v == Head(rest).ref
                 IN IF k \in Keys(output)
                    THEN loop(hp, [j \in 1..Len(output) |->
                                      IF output[j].dim = k THEN [dim |-> k, ref |-> v]
                                      ELSE output[j]], Tail(rest))
                    ELSE loop(hp, Append(output, [dim |-> k, ref |-> v]), Tail(rest))
    IN loop(h, <<>>, entries)

\* Stencil.union(*dicts), lines 83-87.  output[k] is a new set() the first
\* time k is met (the default factory); |= then grows that set in place.
union(h, dicts) ==
    LET entries == flatten(dicts)
        RECURSIVE loop(_, _, _)
        loop(hp, output, rest) ==
            IF rest = <<>> THEN [heap |-> hp, st |-> output]
            ELSE LET k == Head(rest).dim
                     v == Head(rest).ref
                     hp1 == IF k \in Keys(output) THEN hp
                            ELSE Append(hp, [val |-> {}, frozen |-> FALSE])
                     out1 == IF k \in Keys(output) THEN output
                             ELSE Append(output, [dim |-> k, ref |-> Len(hp1)])
                     r == RefOf(out1, k)
                     hp2 == [hp1 EXCEPT ![r].val = hp1[r].val \cup hp1[v].val]
                 IN loop(hp2, out1, Tail(rest))
    IN loop(h, <<>>, entries)

\* Stencil.subtract with o.get(k), whose default is {0}, in place of the
\* test k in o.
subtract_get(h, st, o) ==
    LET RECURSIVE loop(_, _, _)
        loop(hp, output, rest) ==
            IF rest = <<>> THEN [heap |-> hp, st |-> output]
            ELSE LET k == Head(rest).dim
                     v == Head(rest).ref
                     ov == IF k \in Keys(o) THEN hp[RefOf(o, k)].val ELSE {0}
                 IN IF hp[v].frozen
                    THEN loop(Append(hp, [val |-> hp[v].val \ ov, frozen |-> TRUE]),
                              Append(output, [dim |-> k, ref |-> Len(hp) + 1]), Tail(rest))
                    ELSE loop([hp EXCEPT ![v].val = hp[v].val \ ov],
                              Append(output, [dim |-> k, ref |-> v]), Tail(rest))
    IN loop(h, <<>>, st)

\* Stencil.subtract(o), lines 106-111.  output[k] = v stores the object that
\* self stores; -= on a set removes from that object, -= on a frozenset
\* binds a new frozenset.
subtract(h, st, o) ==
    LET RECURSIVE loop(_, _, _)
        loop(hp, output, rest) ==
            IF rest = <<>> THEN [heap |-> hp, st |-> output]
            ELSE LET k == Head(rest).dim
                     v == Head(rest).ref
                 IN IF k \notin Keys(o)
                    THEN loop(hp, Append(output, [dim |-> k, ref |-> v]), Tail(rest))
                    ELSE IF hp[v].frozen
                    THEN loop(Append(hp, [val |-> hp[v].val \ hp[RefOf(o, k)].val,
                                          frozen |-> TRUE]),
                              Append(output, [dim |-> k, ref |-> Len(hp) + 1]), Tail(rest))
                    ELSE loop([hp EXCEPT ![v].val = hp[v].val \ hp[RefOf(o, k)].val],
                              Append(output, [dim |-> k, ref |-> v]), Tail(rest))
    IN loop(h, <<>>, st)

\* Stencil.frozen, line 91: a new Stencil of frozenset copies.
frozen(h, st) ==
    [heap |-> h \o [k \in 1..Len(st) |-> [val |-> h[st[k].ref].val, frozen |-> TRUE]],
     st |-> [k \in 1..Len(st) |-> [dim |-> st[k].dim, ref |-> Len(h) + k]]]

\* ------------------------------------------------- inputs of the operations
MaxKeys == 2
MaxKeysThird == 1

StencilDims == {"x", "y"}
Offsets == {0, 1}

\* Raw initialisation, Stencil([(dim, set), ...]): distinct dimensions in
\* any order, each with a set of offsets.
RawStencils(maxkeys) ==
    {es \in UNION {[1..n -> StencilDims \X SUBSET Offsets] : n \in 0..maxkeys} :
        \A j, k \in 1..Len(es) : j # k => es[j][1] # es[k][1]}

\* The Stencil built from the raw entries es, its sets allocated from base+1.
Build(es, base) == [k \in 1..Len(es) |-> [dim |-> es[k][1], ref |-> base + k]]
Alloc(es) == [k \in 1..Len(es) |-> [val |-> es[k][2], frozen |-> FALSE]]

InitStencil ==
    /\ expr \in {[lhs |-> Access(<<"x">>, <<Bare("x")>>), rhs |-> <<>>, scalars |-> {}]}
    /\ subdomain = <<>>
    /\ SortIdle
    /\ ExtractIdle
    /\ \E a, b \in RawStencils(MaxKeys), c \in RawStencils(MaxKeysThird) :
          /\ heap = Alloc(a) \o Alloc(b) \o Alloc(c)
          /\ self = Build(a, 0)
          /\ other = Build(b, Len(a))
          /\ third = Build(c, Len(a) + Len(b))
    /\ out = <<>>
    /\ op = "none"
    /\ snap = <<>>
    /\ laws = <<>>

Snapshot == [self |-> Items(heap, self), other |-> Items(heap, other),
             third |-> Items(heap, third)]

\* self = self.frozen
Freeze ==
    /\ op = "none"
    /\ self # <<>>
    /\ \A k \in 1..Len(self) : ~heap[self[k].ref].frozen
    /\ heap' = frozen(heap, self).heap
    /\ self' = frozen(heap, self).st
    /\ UNCHANGED <<other, third, out, op, snap, laws>>
    /\ UNCHANGED <<expr, subdomain, sortVars, extractVars>>

\* out = self.subtract(other)
Subtract ==
    /\ op = "none"
    /\ snap' = Snapshot
    /\ heap' = subtract(heap, self, other).heap
    /\ out' = subtract(heap, self, other).st
    /\ op' = "subtract"
    /\ UNCHANGED <<self, other, third, laws>>
    /\ UNCHANGED <<expr, subdomain, sortVars, extractVars>>

\* out = Stencil.union(self, other, third)
Union ==
    /\ op = "none"
    /\ snap' = Snapshot
    /\ heap' = union(heap, <<self, other, third>>).heap
    /\ out' = union(heap, <<self, other, third>>).st
    /\ op' = "union"
    /\ UNCHANGED <<self, other, third, laws>>
    /\ UNCHANGED <<expr, subdomain, sortVars, extractVars>>

\* The unions the laws compare, each kept as list(items()).
UnionLaws ==
    /\ op = "none"
    /\ snap' = Snapshot
    /\ LET ab == union(heap, <<self, other>>)
           ba == union(heap, <<other, self>>)
           ab_c == union(ab.heap, <<ab.st, third>>)
           bc == union(heap, <<other, third>>)
           a_bc == union(bc.heap, <<self, bc.st>>)
       IN laws' = [ab |-> Items(ab.heap, ab.st), ba |-> Items(ba.heap, ba.st),
                   ab_c |-> Items(ab_c.heap, ab_c.st), a_bc |-> Items(a_bc.heap, a_bc.st)]
    /\ op' = "laws"
    /\ UNCHANGED <<heap, self, other, third, out>>
    /\ UNCHANGED <<expr, subdomain, sortVars, extractVars>>

\* The caller adds an offset to a set of the result: out[d].add(n).
Mutate ==
    /\ op \in {"subtract", "union"}
    /\ \E k \in 1..Len(out), n \in Offsets :
          /\ ~heap[out[k].ref].frozen
          /\ heap' = [heap EXCEPT ![out[k].ref].val = heap[out[k].ref].val \cup {n}]
    /\ op' = "mutated"
    /\ UNCHANGED <<self, other, third, out, snap, laws>>
    /\ UNCHANGED <<expr, subdomain, sortVars, extractVars>>

NextStencil == Freeze \/ Subtract \/ Union \/ UnionLaws \/ Mutate

SpecStencil == InitStencil /\ [][NextStencil]_vars

\* ------------------------------------------------------- Stencil claims
ValueIn(items, d) == items[CHOOSE k \in 1..Len(items) : items[k][1] = d][2]
DimsOf(items) == {items[k][1] : k \in 1..Len(items)}
StoredOrEmpty(items, d) == IF d \in DimsOf(items) THEN ValueIn(items, d) ELSE {}

\* C7 as stated: union(A, B) == union(B, A) and
\* union(union(A, B), C) == union(A, union(B, C)) under Stencil equality, the
\* result holding the dimensions of the operands, each with the union of its
\* stored offset sets.
C7_UnionCommutativeAssociative ==
    op = "laws" =>
        /\ laws.ab = laws.ba
        /\ laws.ab_c = laws.a_bc
        /\ DimsOf(laws.ab) = DimsOf(snap.self) \cup DimsOf(snap.other)
        /\ \A d \in DimsOf(laws.ab) :
               ValueIn(laws.ab, d) = StoredOrEmpty(snap.self, d) \cup StoredOrEmpty(snap.other, d)

\* C7 amended: union is associative under Stencil equality; union(A, B) and
\* union(B, A) store the same dimensions with the same offset sets, the
\* dimensions of the operands each with the union of its stored sets, but in
\* the order of first encounter, so they are equal as Stencils only when that
\* order agrees.
C7_UnionAmended ==
    op = "laws" =>
        /\ Range(laws.ab) = Range(laws.ba)
        /\ laws.ab_c = laws.a_bc
        /\ DimsOf(laws.ab) = DimsOf(snap.self) \cup DimsOf(snap.other)
        /\ \A d \in DimsOf(laws.ab) :
               ValueIn(laws.ab, d) = StoredOrEmpty(snap.self, d) \cup StoredOrEmpty(snap.other, d)
        /\ \A d \in DimsOf(laws.ab_c) :
               ValueIn(laws.ab_c, d) = StoredOrEmpty(snap.self, d) \cup StoredOrEmpty(snap.other, d)
                                        \cup StoredOrEmpty(snap.third, d)
        /\ laws.ab = laws.ba <=>
               [k \in 1..Len(laws.ab) |-> laws.ab[k][1]] = [k \in 1..Len(laws.ba) |-> laws.ba[k][1]]

C7_Witness ==
    /\ op = "laws"
    /\ Len(snap.self) = 2
    /\ Len(snap.other) = 2
    /\ snap.self[1][1] = snap.other[2][1]
    /\ snap.self[1][2] # snap.other[2][2]
    /\ snap.third # <<>>
    /\ laws.ab # laws.ba

\* C8: the result of self.subtract(other) has the dimensions of self in
\* self's order; a dimension that other stores too has self's offsets minus
\* other's, a dimension only self stores has self's offsets; a dimension only
\* other stores is not added; subtracting the empty Stencil gives a Stencil
\* equal to self.  (self's and other's offsets are those before the call.)
C8_SubtractResult ==
    op = "subtract" =>
        LET res == Items(heap, out)
        IN /\ Len(res) = Len(snap.self)
           /\ \A k \in 1..Len(res) :
                 /\ res[k][1] = snap.self[k][1]
                 /\ res[k][2] = IF res[k][1] \in DimsOf(snap.other)
                                THEN snap.self[k][2] \ ValueIn(snap.other, res[k][1])
                                ELSE snap.self[k][2]
           /\ other = <<>> => (res = snap.self /\ res = Items(heap, self))

C8_Witness ==
    /\ op = "subtract"
    /\ Len(snap.self) = 2
    /\ Len(snap.other) = 1
    /\ snap.other[1][1] = snap.self[2][1]
    /\ snap.self[2][2] = {0, 1}
    /\ snap.other[1][2] = {1}
    /\ snap.self[1][2] = {0}
    /\ Items(heap, out) = <<snap.self[1], <<snap.self[2][1], {0}>>>>

\* C9 as stated: after self.subtract(other) or union(self, other, third)
\* returns, and after the caller changes a set of the result, every operand
\* stores the dimensions and offset sets it stored before the call.
C9_OperandsUnchanged ==
    op \in {"subtract", "union", "mutated"} =>
        /\ Items(heap, self) = snap.self
        /\ Items(heap, other) = snap.other
        /\ Items(heap, third) = snap.third
====
